---- MODULE Spec2Model ----
(***************************************************************************)
(* Model of backend/main.py: the chat relay (POST /api/chat, streaming and *)
(* blocking), the document renderer entry point generate_file, and the     *)
(* upload handler (POST /api/upload).                                      *)
(*                                                                         *)
(* Text is a sequence of tokens.  A token stands for a run of characters   *)
(* that the code never looks inside: the line terminator, one whitespace   *)
(* character, the six characters "data: ", the six characters "[DONE]",    *)
(* one JSON document, or a run of characters that is not JSON.             *)
(* The content of a response, and so of a document, is a sequence of       *)
(* characters.                                                             *)
(*                                                                         *)
(* Spec follows one request from its arrival to its answer.  SpecRender    *)
(* starts the streaming generator at its document step with any content    *)
(* out of a set of lines, and SpecConcurrent has several requests inside   *)
(* generate_file at once.                                                  *)
(***************************************************************************)
EXTENDS Integers, Sequences, FiniteSets, TLC

\* ---------------------------------------------------------------- bounds
\* Largest number of lines the upstream sends in one streamed response.
MaxLines == 2
\* The number of requests that call generate_file concurrently.
MaxRequests == 2
\* Largest number of lines of a content handed to the document generators.
MaxDocLines == 2

\* ---------------------------------------------------------------- tokens
NL == [k |-> "nl"]
SP == [k |-> "sp"]
DataPrefix == [k |-> "data: "]
DoneTok == [k |-> "[DONE]"]
Junk == [k |-> "junk"]
Json(v) == [k |-> "json", v |-> v]
\* The two parts of 'data: ' when a chunk ends inside it.
PrefixHead == [k |-> "dat"]
PrefixTail == [k |-> "a: "]

\* An upstream delta document {"choices":[{"delta":{"content": c}}]}.
Delta(c) == Json([choices |-> <<[delta |-> [content |-> c]]>>])
DeltaA == Delta(<<"a">>)
DeltaB == Delta(<<"b">>)
DeltaWs == Delta(<<" ">>)
DeltaRole == Json([choices |-> <<[delta |-> [role |-> "assistant"]]>>])
NoChoices == Json([id |-> "x"])

\* ------------------------------------------------------- string helpers
RECURSIVE Flatten(_)
Flatten(ss) == IF ss = <<>> THEN <<>> ELSE Head(ss) \o Flatten(Tail(ss))

\* s + t on token texts: the two parts of a 'data: ' cut by a chunk boundary
\* are the six characters again.
Join(s, t) ==
    IF s /= <<>> /\ t /= <<>> /\ s[Len(s)] = PrefixHead /\ t[1] = PrefixTail
    THEN SubSeq(s, 1, Len(s) - 1) \o <<DataPrefix>> \o Tail(t)
    ELSE s \o t

IsSpaceTok(t) == t = SP \/ t = NL

RECURSIVE LStrip(_)
LStrip(s) == IF s /= <<>> /\ IsSpaceTok(Head(s)) THEN LStrip(Tail(s)) ELSE s

RECURSIVE RStrip(_)
RStrip(s) ==
    IF s /= <<>> /\ IsSpaceTok(s[Len(s)]) THEN RStrip(SubSeq(s, 1, Len(s) - 1)) ELSE s

\* str.strip() on a token text.
Strip(s) == RStrip(LStrip(s))

\* str.strip() on a content string (a sequence of characters): truthiness only.
IsBlankContent(c) == \A i \in 1..Len(c) : c[i] \in {" ", "\n"}

HasNL(s) == \E i \in 1..Len(s) : s[i] = NL

FirstNL(s) == CHOOSE i \in 1..Len(s) : s[i] = NL /\ \A j \in 1..(i - 1) : s[j] /= NL

\* line, buffer = buffer.split('\n', 1)
SplitLine(s) ==
    [line |-> SubSeq(s, 1, FirstNL(s) - 1), rest |-> SubSeq(s, FirstNL(s) + 1, Len(s))]

\* line.startswith('data: ')
StartsWithData(line) == line /= <<>> /\ line[1] = DataPrefix

\* ---------------------------------------------------------- JSON delta
\* json.loads(data) succeeds exactly on one JSON document.
JsonLoadsOk(data) == Len(data) = 1 /\ data[1].k = "json"

\* parsed.get('choices') and parsed['choices'][0].get('delta', {}).get('content')
DeltaContent(v) ==
    IF "choices" \in DOMAIN v /\ v.choices /= <<>>
    THEN LET c == v.choices[1]
             d == IF "delta" \in DOMAIN c THEN c.delta ELSE [x \in {} |-> 0]
         IN IF "content" \in DOMAIN d THEN d.content ELSE <<>>
    ELSE <<>>

\* Lines 286-294: what one 'data: ' line adds to full_content.  data is
\* line[6:].strip(); the sentinel and the empty payload are not parsed, and a
\* payload that does not parse (or has no content) adds nothing.
ExtractDelta(line) ==
    LET data == Strip(Tail(line))
    IN IF data /= <<>> /\ data /= <<DoneTok>> /\ JsonLoadsOk(data)
       THEN DeltaContent(data[1].v)
       ELSE <<>>

\* Lines 286-294: whether the bare except swallows an exception for this line.
ParseRaises(line) ==
    LET data == Strip(Tail(line))
    IN data /= <<>> /\ data /= <<DoneTok>> /\ ~JsonLoadsOk(data)

\* ----------------------------------------------------------------- events
Terminator == <<DataPrefix, DoneTok, NL, NL>>
ErrorEvent(msg) == <<DataPrefix, Json([error |-> [message |-> msg]]), NL, NL>>
\* Line 271: the event for a non-200 answer is put together by hand, the body
\* pasted between double quotes unescaped; it is a JSON document only when the
\* body holds no double quote.
UpstreamErrorEvent(body) ==
    <<DataPrefix,
      IF body.quotes THEN [k |-> "junk", text |-> <<"DeepSeek API error: ", body.text>>]
      ELSE Json([error |-> [message |-> <<"DeepSeek API error: ", body.text>>]]),
      NL, NL>>
FileEvent(info) ==
    <<DataPrefix,
      Json([type |-> "file", filename |-> info.filename, url |-> info.url,
            mime_type |-> info.mime_type]),
      NL, NL>>

\* Lines 283-299: the event yielded for one line split off the buffer
\* (<<>> when the line is blank and nothing is yielded).
ForwardLine(line) ==
    IF Strip(line) = <<>> THEN <<>>
    ELSE IF StartsWithData(line) THEN <<line \o <<NL, NL>>>>
    ELSE <<<<DataPrefix>> \o line \o <<NL, NL>>>>

\* Lines 302-306: the event yielded for what is left in the buffer.
FlushBuffer(buf) ==
    IF Strip(buf) = <<>> THEN <<>>
    ELSE IF StartsWithData(buf) THEN <<buf \o <<NL, NL>>>>
    ELSE <<<<DataPrefix>> \o buf \o <<NL, NL>>>>

VARIABLES api_key, req, pc, wire, received, buffer, full_content, events,
          raised, render_calls, generated, uploads, upstream_calls, status,
          response, workers
\* workers holds the requests that are inside generate_file at the same
\* time; it is empty while a single request is followed.

vars == <<api_key, req, pc, wire, received, buffer, full_content, events,
          raised, render_calls, generated, uploads, upstream_calls, status,
          response, workers>>

\* ------------------------------------------------------------ environment
\* ChatRequest.output_format is any string; "html" stands for one that is none
\* of text, markdown, docx, pdf.
Formats == {"text", "markdown", "docx", "pdf", "html"}

\* What one upstream line can hold between two line terminators.
LineBodies ==
    { <<>>,
      <<SP>>,
      <<DataPrefix, DeltaA>>,
      <<DataPrefix, DeltaB>>,
      <<DataPrefix, DeltaWs>>,
      <<DataPrefix, DeltaRole>>,
      <<DataPrefix, Junk>>,
      <<DataPrefix, NoChoices>>,
      <<DataPrefix, DoneTok>>,
      <<DoneTok>>,
      <<Junk>>,
      <<DeltaA>>,
      <<SP, DataPrefix, DeltaB>>,
      <<DataPrefix, DeltaA, SP>> }

RECURSIVE TermTexts(_)
TermTexts(n) ==
    IF n = 0 THEN {<<>>}
    ELSE {<<>>} \cup {b \o <<NL>> \o t : b \in LineBodies, t \in TermTexts(n - 1)}

\* Every text of at most MaxLines lines, the last one terminated or not.
UpstreamTexts ==
    TermTexts(MaxLines) \cup {t \o b : t \in TermTexts(MaxLines - 1), b \in LineBodies}

\* Upstream status codes other than 200, and the bodies that come with them:
\* plain text, or text with double quotes in it (a JSON error object).
ErrorStatuses == {401, 429, 503}
ErrorBodies == {[text |-> "upstream says no", quotes |-> FALSE],
                [text |-> "a JSON error object", quotes |-> TRUE]}
Timestamps == {"20260101_000000"}
FileIds == {"0a1b2c3d", "4e5f6a7b"}

\* -------------------------------------------------- document generators
\* str.strip() on a content string.
RECURSIVE LStripContent(_)
LStripContent(c) ==
    IF c /= <<>> /\ Head(c) \in {" ", "\n"} THEN LStripContent(Tail(c)) ELSE c

RECURSIVE RStripContent(_)
RStripContent(c) ==
    IF c /= <<>> /\ c[Len(c)] \in {" ", "\n"}
    THEN RStripContent(SubSeq(c, 1, Len(c) - 1)) ELSE c

StripContent(c) == RStripContent(LStripContent(c))

\* content.split('\n')
RECURSIVE SplitContent(_)
SplitContent(c) ==
    IF \E i \in 1..Len(c) : c[i] = "\n"
    THEN LET i == CHOOSE k \in 1..Len(c) : c[k] = "\n" /\ \A j \in 1..(k - 1) : c[j] /= "\n"
         IN <<SubSeq(c, 1, i - 1)>> \o SplitContent(SubSeq(c, i + 1, Len(c)))
    ELSE <<c>>

\* str.startswith, str.endswith
StartsWith(s, p) == Len(s) >= Len(p) /\ SubSeq(s, 1, Len(p)) = p
EndsWith(s, p) == Len(s) >= Len(p) /\ SubSeq(s, Len(s) - Len(p) + 1, Len(s)) = p

\* The grave accent, U+0060, one character like the others, and the marker
\* of line 121: three of them.
Backtick == "grave"
Fence == <<Backtick, Backtick, Backtick>>

\* Lines 79-84: the text is written as it is.
generate_markdown_file(content) == <<[kind |-> "text", text |-> content]>>

\* Lines 101-126: what one line of the content adds to the document.
DocxLine(raw) ==
    LET line == StripContent(raw)
    IN IF line = <<>> THEN <<[kind |-> "paragraph", text |-> <<>>]>>
       ELSE IF StartsWith(line, <<"#", " ">>)
       THEN <<[kind |-> "heading 1", text |-> SubSeq(line, 3, Len(line))]>>
       ELSE IF StartsWith(line, <<"#", "#", " ">>)
       THEN <<[kind |-> "heading 2", text |-> SubSeq(line, 4, Len(line))]>>
       ELSE IF StartsWith(line, <<"#", "#", "#", " ">>)
       THEN <<[kind |-> "heading 3", text |-> SubSeq(line, 5, Len(line))]>>
       ELSE IF StartsWith(line, <<"*", "*">>) /\ EndsWith(line, <<"*", "*">>)
       THEN <<[kind |-> "bold run", text |-> SubSeq(line, 3, Len(line) - 2)]>>
       ELSE IF StartsWith(line, <<"-", " ">>) \/ StartsWith(line, <<"*", " ">>)
       THEN <<[kind |-> "List Bullet", text |-> SubSeq(line, 3, Len(line))]>>
       ELSE IF StartsWith(line, Fence) THEN <<>>
       ELSE <<[kind |-> "paragraph", text |-> line]>>

\* Lines 86-130: the title, the time of generation, an empty paragraph, then
\* the lines of the content.
DocxPreamble ==
    <<[kind |-> "heading 0", text |-> <<"title">>],
      [kind |-> "paragraph", text |-> <<"generated at">>],
      [kind |-> "paragraph", text |-> <<>>]>>

generate_docx_file(content) ==
    DocxPreamble
    \o Flatten([i \in 1..Len(SplitContent(content)) |-> DocxLine(SplitContent(content)[i])])

\* Line 175: re.sub(r'[<>&]', '', line)
NotMarkup(ch) == ch \notin {"<", ">", "&"}
clean_line(line) == SelectSeq(line, NotMarkup)

\* Lines 161-178: what one line of the content adds to the story.
PdfLine(raw) ==
    LET line == StripContent(raw)
    IN IF line = <<>> THEN <<[kind |-> "Spacer 6", text |-> <<>>]>>
       ELSE <<IF StartsWith(line, <<"#", " ">>)
              THEN [kind |-> "Heading1", text |-> SubSeq(line, 3, Len(line))]
              ELSE IF StartsWith(line, <<"#", "#", " ">>)
              THEN [kind |-> "Heading1", text |-> SubSeq(line, 4, Len(line))]
              ELSE IF StartsWith(line, <<"#", "#", "#", " ">>)
              THEN [kind |-> "Heading1", text |-> SubSeq(line, 5, Len(line))]
              ELSE [kind |-> "Normal", text |-> clean_line(line)],
              [kind |-> "Spacer 6", text |-> <<>>]>>

\* Lines 148-156: the title and the time of generation, a spacer after each.
PdfPreamble ==
    <<[kind |-> "Title", text |-> <<"title">>], [kind |-> "Spacer 12", text |-> <<>>],
      [kind |-> "Normal", text |-> <<"generated at">>],
      [kind |-> "Spacer 12", text |-> <<>>]>>

\* Lines 132-182.
generate_pdf_file(content) ==
    PdfPreamble
    \o Flatten([i \in 1..Len(SplitContent(content)) |-> PdfLine(SplitContent(content)[i])])

\* Lines 193-211: the generator generate_file hands the content to.
RenderedBody(fmt, content) ==
    CASE fmt = "markdown" -> generate_markdown_file(content)
      [] fmt = "docx" -> generate_docx_file(content)
      [] fmt = "pdf" -> generate_pdf_file(content)
      [] OTHER -> <<>>

\* ---------------------------------------------------------- generate_file
Extension(fmt) ==
    CASE fmt = "markdown" -> ".md" [] fmt = "docx" -> ".docx" [] fmt = "pdf" -> ".pdf"
      [] OTHER -> ""

MimeType(fmt) ==
    CASE fmt = "markdown" -> "text/markdown"
      [] fmt = "docx" ->
            "application/vnd.openxmlformats-officedocument.wordprocessingml.document"
      [] fmt = "pdf" -> "application/pdf"
      [] OTHER -> ""

FileName(fmt, ts, id) == <<"ai_response_", ts, "_", id, Extension(fmt)>>

\* Lines 184-223 with the return of line 211 moved after the try: a reference
\* is returned although the generator threw.
generate_file_ReturnsOnThrow(content, fmt, ts, id, writes) ==
    IF fmt = "text" THEN <<>>
    ELSE IF fmt \in {"markdown", "docx", "pdf"}
    THEN << [filename |-> FileName(fmt, ts, id),
             url |-> <<"/api/files/">> \o FileName(fmt, ts, id),
             mime_type |-> MimeType(fmt)] >>
    ELSE <<>>

\* Lines 184-223.  The result is <<>> for None and <<info>> for a reference;
\* writes is true when the format's generator threw nothing (the file exists).
generate_file(content, fmt, ts, id, writes) ==
    IF fmt = "text" THEN <<>>
    ELSE IF fmt \in {"markdown", "docx", "pdf"} /\ writes
    THEN << [filename |-> FileName(fmt, ts, id),
             url |-> <<"/api/files/">> \o FileName(fmt, ts, id),
             mime_type |-> MimeType(fmt)] >>
    ELSE <<>>

\* The file a generator that threw nothing leaves in GENERATED_DIR (what a
\* generator that threw may have left behind is not recorded).
WrittenFiles(content, fmt, ts, id, writes) ==
    IF fmt \in {"markdown", "docx", "pdf"} /\ writes
    THEN {[filename |-> FileName(fmt, ts, id), format |-> fmt, content |-> content,
           body |-> RenderedBody(fmt, content)]}
    ELSE {}

\* Line 309 without its format test.
WantsDocument_AnyFormat(fmt, content) == ~IsBlankContent(content)

\* Line 309: request.output_format != "text" and full_content.strip()
WantsDocument(fmt, content) == fmt /= "text" /\ ~IsBlankContent(content)

\* ------------------------------------------------- blocking chat, inputs
\* What the upstream answers a blocking call with: a completion whose first
\* choice carries some content, a body with no choices, or one whose first
\* choice has no message.
Completion(c) == [choices |-> <<[message |-> [content |-> c]]>>]
UpstreamBodies ==
    {Completion(<<"a">>), Completion(<<" ">>), Completion(<<>>), [choices |-> <<>>],
     [choices |-> <<[index |-> 0]>>]}

\* What the httpx call raises when the upstream cannot be reached or does not
\* answer in time: the classes the clauses of lines 371 and 373 name.
NetworkFailures == {"TimeoutException", "RequestError"}

\* Lines 371-380 with the clause of line 373 first: TimeoutException is a
\* RequestError and is caught there.
ChatExcept_RequestErrorFirst(e) ==
    CASE e.type \in {"TimeoutException", "RequestError"} ->
            [status |-> 500, detail |-> [text |-> "network error", cause |-> e]]
      [] OTHER -> [status |-> 500, detail |-> [text |-> "server error", cause |-> e]]

\* Lines 371-380: the except clauses of chat_with_deepseek, applied to what
\* the try block raised.  httpx.TimeoutException is matched first, then
\* httpx.RequestError, then every other Exception, HTTPException included.
ChatExcept(e) ==
    CASE e.type = "TimeoutException" -> [status |-> 408, detail |-> [text |-> "timeout"]]
      [] e.type = "RequestError" ->
            [status |-> 500, detail |-> [text |-> "network error", cause |-> e]]
      [] OTHER -> [status |-> 500, detail |-> [text |-> "server error", cause |-> e]]

\* Lines 365-369 with the reference put in place of the upstream JSON.
AugmentResponse_ReplacesBody(data, info) ==
    IF info /= <<>>
    THEN [status |-> 200, body |-> [file |-> info[1]], file |-> info[1]]
    ELSE [status |-> 200, body |-> data]

\* Lines 365-369: response_data["file"] = file_info when there is one, and
\* the return of response_data with the default status.
AugmentResponse(data, info) ==
    IF info /= <<>>
    THEN [status |-> 200, body |-> data, file |-> info[1]]
    ELSE [status |-> 200, body |-> data]

\* ------------------------------------------------------- upload, inputs
\* Line 398: 50 * 1024 * 1024
UploadLimit == 50 * 1024 * 1024
\* Line 389
allowed_extensions ==
    {".pdf", ".docx", ".doc", ".txt", ".jpg", ".jpeg", ".png", ".gif", ".xlsx", ".xls",
     ".pptx", ".ppt"}
UploadExtensions == {".pdf", ".PDF", ".txt", ".exe", ""}
UploadSizes == {0, 1, UploadLimit - 1, UploadLimit, UploadLimit + 1}
\* str.lower() on the extensions above.
Lower(ext) == IF ext = ".PDF" THEN ".pdf" ELSE ext
StoredBefore == [name |-> <<"99999999", ".txt">>, size |-> 1]

\* Lines 388-409 with >= in the test of line 398.
UploadRaises_LimitExclusive(ext, size, reads, writes) ==
    IF Lower(ext) \notin allowed_extensions
    THEN [type |-> "HTTPException", status_code |-> 400, detail |-> "unsupported type"]
    ELSE IF ~reads THEN [type |-> "OSError"]
    ELSE IF size >= UploadLimit
    THEN [type |-> "HTTPException", status_code |-> 400, detail |-> "over 50MB"]
    ELSE IF writes /= "ok" THEN [type |-> "OSError"]
    ELSE [type |-> "none"]

\* Lines 388-409: what the try block of upload_file raises, "none" when it
\* runs to the return.  reads: file.read() succeeds; writes: "ok", or the
\* open fails, or the write fails after the file was created.
UploadRaises(ext, size, reads, writes) ==
    IF Lower(ext) \notin allowed_extensions
    THEN [type |-> "HTTPException", status_code |-> 400, detail |-> "unsupported type"]
    ELSE IF ~reads THEN [type |-> "OSError"]
    ELSE IF size > UploadLimit
    THEN [type |-> "HTTPException", status_code |-> 400, detail |-> "over 50MB"]
    ELSE IF writes /= "ok" THEN [type |-> "OSError"]
    ELSE [type |-> "none"]

\* Lines 401-409: what the handler leaves in UPLOAD_DIR.
UploadWrites(ext, size, reads, writes, id) ==
    IF Lower(ext) \notin allowed_extensions \/ ~reads \/ size > UploadLimit
       \/ writes = "open fails"
    THEN {}
    ELSE IF writes = "write fails" THEN {[name |-> <<id, ext>>, size |-> 0]}
    ELSE {[name |-> <<id, ext>>, size |-> size]}

\* Lines 419-420: except Exception, which HTTPException is.
UploadExcept(e) == [status |-> 500, detail |-> [text |-> "upload failed", cause |-> e]]

\* ------------------------------------------------------------------- Init
NoResponse == [status |-> 0]

Init ==
    /\ api_key \in BOOLEAN
    /\ req \in [kind : {"chat"}, stream : BOOLEAN, output_format : Formats]
               \cup [kind : {"upload"}, ext : UploadExtensions, size : UploadSizes]
    /\ pc = "request"
    /\ wire = <<>>
    /\ received = <<>>
    /\ buffer = <<>>
    /\ full_content = <<>>
    /\ events = <<>>
    /\ raised = {}
    /\ render_calls = <<>>
    /\ generated = {}
    /\ uploads \in IF req.kind = "upload" THEN {{}, {StoredBefore}} ELSE {{}}
    /\ upstream_calls = 0
    /\ status = 0
    /\ response = NoResponse
    /\ workers = <<>>

\* ------------------------------------------------- POST /api/chat, entry
\* Lines 238-239: the credential check, outside the try.
ChatNoKey ==
    /\ pc = "request" /\ req.kind = "chat" /\ ~api_key
    /\ response' = [status |-> 500, detail |-> <<"api key not configured">>]
    /\ pc' = "done"
    /\ UNCHANGED <<workers, api_key, req, wire, received, buffer, full_content, events,
                   raised, render_calls, generated, uploads, upstream_calls, status>>

\* Lines 257-341 without the credential check of lines 238-239 before them.
ChatStreamStart_NoKeyCheck ==
    /\ pc = "request" /\ req.kind = "chat" /\ req.stream
    /\ response' = [status |-> 200, media_type |-> "text/event-stream"]
    /\ pc' = "open"
    /\ UNCHANGED <<workers, api_key, req, wire, received, buffer, full_content, events,
                   raised, render_calls, generated, uploads, upstream_calls, status>>

\* Lines 257-341: the handler returns the StreamingResponse; generate() has
\* not run yet.
ChatStreamStart ==
    /\ pc = "request" /\ req.kind = "chat" /\ api_key /\ req.stream
    /\ response' = [status |-> 200, media_type |-> "text/event-stream"]
    /\ pc' = "open"
    /\ UNCHANGED <<workers, api_key, req, wire, received, buffer, full_content, events,
                   raised, render_calls, generated, uploads, upstream_calls, status>>

\* ------------------------------------------------------------- generate()
\* Lines 264-266 raise (a timeout, or a connect or other request error):
\* caught at line 331.
OpenFails ==
    /\ pc = "open"
    /\ upstream_calls' = upstream_calls + 1
    /\ \E t \in NetworkFailures :
          /\ raised' = raised \cup {"connect", t}
          /\ events' = Append(events, ErrorEvent(<<"stream error: ", t>>))
    /\ status' = status
    /\ pc' = "terminate"
    /\ UNCHANGED <<workers, api_key, req, wire, received, buffer, full_content,
                   render_calls, generated, uploads, response>>

\* Lines 267-273: the upstream answers with a status other than 200.  Reading
\* its body (line 268) either succeeds or raises into line 331.
UpstreamRejects ==
    /\ pc = "open"
    /\ upstream_calls' = upstream_calls + 1
    /\ \E s \in ErrorStatuses, body \in ErrorBodies, readable \in BOOLEAN :
          /\ status' = s
          /\ IF readable
             THEN /\ events' = Append(events, UpstreamErrorEvent(body))
                  /\ raised' = raised
             ELSE /\ events' = Append(events, ErrorEvent(<<"stream error: ", "aread">>))
                  /\ raised' = raised \cup {"aread"}
    /\ pc' = "terminate"
    /\ UNCHANGED <<workers, api_key, req, wire, received, buffer, full_content,
                   render_calls, generated, uploads, response>>

\* Lines 265-276: status 200; the upstream has some text to send.
OpenOk ==
    /\ pc = "open"
    /\ upstream_calls' = upstream_calls + 1
    /\ status' = 200
    /\ wire' \in UpstreamTexts
    /\ buffer' = <<>>
    /\ pc' = "read"
    /\ UNCHANGED <<workers, api_key, req, received, full_content, events, raised,
                   render_calls, generated, uploads, response>>

\* The ways the upstream can cut the next chunk off what it has still to
\* send: after any number of tokens, or inside the 'data: ' that follows
\* them.
Chunks(w) ==
    {[text |-> SubSeq(w, 1, n), rest |-> SubSeq(w, n + 1, Len(w))] : n \in 0..Len(w)}
    \cup {[text |-> SubSeq(w, 1, n) \o <<PrefixHead>>,
           rest |-> <<PrefixTail>> \o SubSeq(w, n + 2, Len(w))] :
             n \in {m \in 0..(Len(w) - 1) : w[m + 1] = DataPrefix}}

\* Lines 277-279 with the chunk assigned to the buffer, not appended.
ReadChunk_DropsBuffer ==
    /\ pc = "read" /\ ~HasNL(buffer)
    /\ \E chunk \in Chunks(wire) :
          /\ buffer' = chunk.text
          /\ received' = Join(received, chunk.text)
          /\ wire' = chunk.rest
    /\ UNCHANGED <<workers, api_key, req, pc, full_content, events, raised, render_calls,
                   generated, uploads, upstream_calls, status, response>>

\* Lines 277-279: the next chunk is appended to the buffer; an empty chunk is
\* skipped by line 278.
ReadChunk ==
    /\ pc = "read" /\ ~HasNL(buffer)
    /\ \E chunk \in Chunks(wire) :
          /\ buffer' = Join(buffer, chunk.text)
          /\ received' = Join(received, chunk.text)
          /\ wire' = chunk.rest
    /\ UNCHANGED <<workers, api_key, req, pc, full_content, events, raised, render_calls,
                   generated, uploads, upstream_calls, status, response>>

\* Lines 281-299 without the try/except of lines 286-294: a payload that does
\* not parse reaches the handler of line 331.
ProcessLine_ParseEscapes ==
    /\ pc = "read" /\ HasNL(buffer)
    /\ LET line == SplitLine(buffer).line
           escapes == Strip(line) /= <<>> /\ StartsWithData(line) /\ ParseRaises(line)
       IN /\ buffer' = SplitLine(buffer).rest
          /\ full_content' =
                IF Strip(line) /= <<>> /\ StartsWithData(line)
                THEN full_content \o ExtractDelta(line)
                ELSE full_content
          /\ raised' = IF escapes THEN raised \cup {"parse"} ELSE raised
          /\ events' = IF escapes
                       THEN Append(events, ErrorEvent(<<"stream error: ", "parse">>))
                       ELSE events \o ForwardLine(line)
          /\ pc' = IF escapes THEN "terminate" ELSE pc
    /\ UNCHANGED <<workers, api_key, req, wire, received, render_calls, generated,
                   uploads, upstream_calls, status, response>>

\* Lines 281-299: one turn of the while loop, up to its yield.
ProcessLine ==
    /\ pc = "read" /\ HasNL(buffer)
    /\ LET line == SplitLine(buffer).line
       IN /\ buffer' = SplitLine(buffer).rest
          /\ full_content' =
                IF Strip(line) /= <<>> /\ StartsWithData(line)
                THEN full_content \o ExtractDelta(line)
                ELSE full_content
          /\ raised' =
                IF Strip(line) /= <<>> /\ StartsWithData(line) /\ ParseRaises(line)
                THEN raised \cup {"parse"}
                ELSE raised
          /\ events' = events \o ForwardLine(line)
    /\ UNCHANGED <<workers, api_key, req, pc, wire, received, render_calls, generated,
                   uploads, upstream_calls, status, response>>

\* Lines 322-339 with the two yields of an error event left out.
ReadRaises_NoErrorEvent ==
    /\ pc = "read" /\ ~HasNL(buffer)
    /\ raised' = raised \cup {"chunk"}
    /\ pc' = "terminate"
    /\ UNCHANGED <<workers, api_key, req, wire, received, buffer, full_content, events,
                   render_calls, generated, uploads, upstream_calls, status, response>>

\* Lines 322-339 followed by the document generation of lines 308-319, as if
\* that stood in a finally clause.
ReadRaises_ThenRenders ==
    /\ pc = "read" /\ ~HasNL(buffer)
    /\ \E e \in {"StreamClosed", "ReadError"} :
          events' = Append(events,
                       IF e = "StreamClosed"
                       THEN ErrorEvent(<<"Stream was closed unexpectedly">>)
                       ELSE ErrorEvent(<<"stream error: ", e>>))
    /\ raised' = raised \cup {"chunk"}
    /\ pc' = "render"
    /\ UNCHANGED <<workers, api_key, req, wire, received, buffer, full_content,
                   render_calls, generated, uploads, upstream_calls, status, response>>

\* Line 277 raises while waiting for a chunk: httpx.StreamClosed goes to line
\* 322, anything else to line 331.
ReadRaises ==
    /\ pc = "read" /\ ~HasNL(buffer)
    /\ \E e \in {"StreamClosed", "ReadError"} :
          events' = Append(events,
                       IF e = "StreamClosed"
                       THEN ErrorEvent(<<"Stream was closed unexpectedly">>)
                       ELSE ErrorEvent(<<"stream error: ", e>>))
    /\ raised' = raised \cup {"chunk"}
    /\ pc' = "terminate"
    /\ UNCHANGED <<workers, api_key, req, wire, received, buffer, full_content,
                   render_calls, generated, uploads, upstream_calls, status, response>>

\* Lines 277, 301-306: the upstream is exhausted; what is left in the buffer is
\* flushed.
EndOfStream ==
    /\ pc = "read" /\ ~HasNL(buffer) /\ wire = <<>>
    /\ events' = events \o FlushBuffer(buffer)
    /\ pc' = "render"
    /\ UNCHANGED <<workers, api_key, req, wire, received, buffer, full_content, raised,
                   render_calls, generated, uploads, upstream_calls, status, response>>

\* Lines 308-319: the document, when one is wanted.
GenerateDocument ==
    /\ pc = "render"
    /\ IF WantsDocument(req.output_format, full_content)
       THEN \E ts \in Timestamps, id \in FileIds, writes \in BOOLEAN :
               LET info == generate_file(full_content, req.output_format, ts, id, writes)
               IN /\ render_calls' =
                        Append(render_calls,
                               [content |-> full_content, format |-> req.output_format])
                  /\ generated' = generated \cup
                        WrittenFiles(full_content, req.output_format, ts, id, writes)
                  /\ raised' =
                        IF req.output_format \in {"markdown", "docx", "pdf"} /\ ~writes
                        THEN raised \cup {"render"} ELSE raised
                  /\ events' = IF info /= <<>> THEN Append(events, FileEvent(info[1]))
                               ELSE events
       ELSE UNCHANGED <<render_calls, generated, raised, events>>
    /\ pc' = "terminate"
    /\ UNCHANGED <<workers, api_key, req, wire, received, buffer, full_content, uploads,
                   upstream_calls, status, response>>

\* Lines 272, 321, 330, 339: the last yield of every path.
EmitTerminator ==
    /\ pc = "terminate"
    /\ events' = Append(events, Terminator)
    /\ pc' = "done"
    /\ UNCHANGED <<workers, api_key, req, wire, received, buffer, full_content, raised,
                   render_calls, generated, uploads, upstream_calls, status, response>>

\* --------------------------------------------- POST /api/chat, blocking
\* Lines 343-380: the whole handler for stream=false.
ChatBlocking ==
    /\ pc = "request" /\ req.kind = "chat" /\ api_key /\ ~req.stream
    /\ upstream_calls' = upstream_calls + 1
    /\ \/ \* line 349 raises
          /\ \E t \in NetworkFailures :
                /\ response' = ChatExcept([type |-> t])
                /\ raised' = raised \cup {t}
          /\ UNCHANGED <<render_calls, generated, status, received>>
       \/ \* lines 353-355: a status other than 200
          /\ \E s \in ErrorStatuses, body \in ErrorBodies :
                /\ status' = s
                /\ response' = ChatExcept([type |-> "HTTPException", status_code |-> s,
                                           detail |-> <<"DeepSeek API error: ", body.text>>])
          /\ UNCHANGED <<render_calls, generated, raised, received>>
       \/ \* line 357: the body is not JSON
          /\ status' = 200
          /\ received' = <<Junk>>
          /\ response' = ChatExcept([type |-> "JSONDecodeError"])
          /\ UNCHANGED <<render_calls, generated, raised>>
       \/ \* lines 357-369
          \E data \in UpstreamBodies :
             /\ status' = 200
             /\ received' = <<Json(data)>>
             /\ IF req.output_format /= "text" /\ data.choices /= <<>>
                   /\ "message" \notin DOMAIN data.choices[1]
                THEN \* line 362 raises KeyError
                     /\ response' = ChatExcept([type |-> "KeyError"])
                     /\ UNCHANGED <<render_calls, generated, raised>>
                ELSE IF req.output_format /= "text" /\ data.choices /= <<>>
                   /\ ~IsBlankContent(data.choices[1].message.content)
                THEN \E ts \in Timestamps, id \in FileIds, writes \in BOOLEAN :
                     LET content == data.choices[1].message.content
                         info == generate_file(content, req.output_format, ts, id, writes)
                     IN /\ render_calls' =
                              Append(render_calls,
                                     [content |-> content, format |-> req.output_format])
                        /\ generated' = generated \cup
                              WrittenFiles(content, req.output_format, ts, id, writes)
                        /\ raised' =
                              IF req.output_format \in {"markdown", "docx", "pdf"} /\ ~writes
                              THEN raised \cup {"render"} ELSE raised
                        /\ response' = AugmentResponse(data, info)
                ELSE /\ response' = AugmentResponse(data, <<>>)
                     /\ UNCHANGED <<render_calls, generated, raised>>
    /\ pc' = "done"
    /\ UNCHANGED <<workers, api_key, req, wire, buffer, full_content, events, uploads>>

\* ------------------------------------------------------ POST /api/upload
\* Lines 383-420: the whole handler.
UploadFile ==
    /\ pc = "request" /\ req.kind = "upload"
    /\ \E reads \in BOOLEAN, writes \in {"ok", "open fails", "write fails"}, id \in FileIds :
          LET e == UploadRaises(req.ext, req.size, reads, writes)
          IN /\ uploads' = uploads \cup UploadWrites(req.ext, req.size, reads, writes, id)
             /\ response' =
                   IF e.type = "none"
                   THEN [status |-> 200, file_id |-> id, size |-> req.size]
                   ELSE UploadExcept(e)
    /\ pc' = "done"
    /\ UNCHANGED <<workers, api_key, req, wire, received, buffer, full_content, events, raised,
                   render_calls, generated, upstream_calls, status>>

Next ==
    \/ ChatBlocking
    \/ UploadFile
    \/ ChatNoKey
    \/ ChatStreamStart
    \/ OpenFails
    \/ UpstreamRejects
    \/ OpenOk
    \/ ReadChunk
    \/ ProcessLine
    \/ ReadRaises
    \/ EndOfStream
    \/ GenerateDocument
    \/ EmitTerminator

Spec == Init /\ [][Next]_vars

\* ------------------------------------- generate_file, concurrent callers
\* Several requests, each with a document to generate, call generate_file
\* while the others are between its lines (one process per request, or one
\* event loop taking them in turn).  workers[r] is where request r stands:
\* "call" before line 189, "named" after line 190, "returned" after line 211,
\* "failed" after line 221.
Requests == 1..MaxRequests
ClockReadings == Timestamps \cup {"20260101_000001"}

InitConcurrent ==
    /\ api_key = TRUE
    /\ req = [kind |-> "chat", stream |-> FALSE, output_format |-> "markdown"]
    /\ pc = "generate_file"
    /\ wire = <<>>
    /\ received = <<>>
    /\ buffer = <<>>
    /\ full_content = <<>>
    /\ events = <<>>
    /\ raised = {}
    /\ render_calls = <<>>
    /\ generated = {}
    /\ uploads = {}
    /\ upstream_calls = 0
    /\ status = 200
    /\ response = NoResponse
    /\ workers \in [Requests ->
                      [pc : {"call"}, format : {"markdown", "docx", "pdf"},
                       content : {<<"a">>, <<"b">>}, filename : {<<>>}]]

\* Lines 189-191: the clock is read to the second, eight characters of a
\* uuid4 are taken, and the two make the name.
NameFile ==
    \E r \in Requests, ts \in ClockReadings, id \in FileIds :
        /\ workers[r].pc = "call"
        /\ workers' = [workers EXCEPT ![r].pc = "named",
                                      ![r].filename = FileName(workers[r].format, ts, id)]
        /\ UNCHANGED <<api_key, req, pc, wire, received, buffer, full_content, events,
                       raised, render_calls, generated, uploads, upstream_calls, status,
                       response>>

\* Lines 193-221: the format's generator opens the path for writing, which
\* replaces a file already there, and the reference is returned; or it throws
\* and None is returned.
WriteFile ==
    \E r \in Requests, writes \in BOOLEAN :
        /\ workers[r].pc = "named"
        /\ workers' = [workers EXCEPT ![r].pc = IF writes THEN "returned" ELSE "failed"]
        /\ generated' =
              IF writes
              THEN {f \in generated : f.filename /= workers[r].filename}
                   \cup {[filename |-> workers[r].filename, format |-> workers[r].format,
                          content |-> workers[r].content,
                          body |-> RenderedBody(workers[r].format, workers[r].content)]}
              ELSE generated
        /\ render_calls' =
              Append(render_calls,
                     [content |-> workers[r].content, format |-> workers[r].format])
        /\ UNCHANGED <<api_key, req, pc, wire, received, buffer, full_content, events,
                       raised, uploads, upstream_calls, status, response>>

NextConcurrent ==
    \/ NameFile
    \/ WriteFile

SpecConcurrent == InitConcurrent /\ [][NextConcurrent]_vars

\* --------------------------------------------- the generators, by input
\* The generator of a streaming response at line 308, after an upstream that
\* sent one frame whose content is any text of at most MaxDocLines lines
\* taken from DocLines.
DocLines ==
    {<<>>, <<" ">>, <<"x">>, <<"x", " ", "y">>,
     <<"#", " ", "x">>, <<"#", "#", " ", "x">>, <<"#", "#", "#", " ", "x">>,
     <<"#", "#", "#", "#", " ", "x">>, <<"#", "x">>, <<" ", "#", " ", "x", " ">>,
     <<"*", "*", "x", "*", "*">>, <<"*", "*">>, <<"*", "*", "x">>, <<"*", "x", "*">>,
     <<"-", " ", "x">>, <<"*", " ", "x">>, <<"-", "x">>,
     Fence, Fence \o <<"x">>, Fence \o <<"x">> \o Fence, <<Backtick, Backtick>>,
     <<"<", "x", ">", "&">>, <<"#", " ", "<", "x">>, <<"-", " ", "<">>}

RECURSIVE JoinLines(_)
JoinLines(ls) ==
    IF Len(ls) = 1 THEN ls[1] ELSE ls[1] \o <<"\n">> \o JoinLines(Tail(ls))

RenderTexts == {JoinLines(ls) : ls \in UNION {[1..n -> DocLines] : n \in 1..MaxDocLines}}

InitRender ==
    /\ api_key = TRUE
    /\ req \in [kind : {"chat"}, stream : {TRUE}, output_format : {"markdown", "docx", "pdf"}]
    /\ pc = "render"
    /\ wire = <<>>
    /\ \E text \in RenderTexts :
          /\ received = <<DataPrefix, Delta(text), NL>>
          /\ full_content = text
          /\ events = <<<<DataPrefix, Delta(text), NL, NL>>>>
    /\ buffer = <<>>
    /\ raised = {}
    /\ render_calls = <<>>
    /\ generated = {}
    /\ uploads = {}
    /\ upstream_calls = 1
    /\ status = 200
    /\ response = [status |-> 200, media_type |-> "text/event-stream"]
    /\ workers = <<>>

NextRender ==
    \/ GenerateDocument
    \/ EmitTerminator

SpecRender == InitRender /\ [][NextRender]_vars

\* ============================================================ properties
\* Reading aids shared by the properties below.
Streaming == req.kind = "chat" /\ req.stream /\ api_key

Count(seq, e) == Cardinality({i \in 1..Len(seq) : seq[i] = e})

IsJsonEvent(e) == Len(e) = 4 /\ e[1] = DataPrefix /\ e[2].k = "json"
IsFileEvent(e) == IsJsonEvent(e) /\ "type" \in DOMAIN e[2].v
IsErrorEvent(e) == IsJsonEvent(e) /\ "error" \in DOMAIN e[2].v

\* text.split('\n'): the terminated lines, then what follows the last
\* terminator (possibly empty).
RECURSIVE LinesOf(_)
LinesOf(t) ==
    IF HasNL(t) THEN <<SplitLine(t).line>> \o LinesOf(SplitLine(t).rest) ELSE <<t>>

\* The frame data of a line as the specification reads it: the line trimmed,
\* the prefix removed when the trimmed line carries it, the rest trimmed.
FrameData(line) ==
    LET t == Strip(line) IN Strip(IF StartsWithData(t) THEN Tail(t) ELSE t)

IsSentinelLine(line) == FrameData(line) = <<DoneTok>>

\* The content field of a well-formed delta frame, <<>> for any other line.
FrameContent(line) ==
    IF JsonLoadsOk(FrameData(line)) THEN DeltaContent(FrameData(line)[1].v) ELSE <<>>

\* The generator read the upstream to its end and no exception escaped.
EscapeSites == {"connect", "aread", "chunk"}
ReadToEnd == Streaming /\ status = 200 /\ raised \cap EscapeSites = {}
                /\ pc \in {"render", "terminate", "done"}

\* C1: a streaming generator that ran to its end has emitted the terminator
\* event exactly once, as its last event, on every path.
C1_TerminatorOnceAndLast ==
    (Streaming /\ pc = "done") =>
        /\ Count(events, Terminator) = 1
        /\ events[Len(events)] = Terminator

\* C2: a sentinel line read from the upstream is not forwarded when it is
\* read (no terminator event exists while the upstream is still being read or
\* the document rendered), and no terminator event precedes a file event.
C2_SentinelDeferred ==
    Streaming =>
        /\ pc \in {"read", "render"} => Count(events, Terminator) = 0
        /\ \A i, j \in 1..Len(events) :
              (i < j /\ IsFileEvent(events[j])) => events[i] /= Terminator

\* C3: when the upstream is exhausted, full_content is the concatenation, in
\* arrival order, of the content fields of all well-formed delta frames of
\* the received text, the unterminated last one and the ones without the
\* 'data: ' prefix included.
C3_AccumulatesEveryDelta ==
    (Streaming /\ pc = "render") =>
        full_content =
            Flatten([i \in 1..Len(LinesOf(received)) |-> FrameContent(LinesOf(received)[i])])

ErrorEvents == {i \in 1..Len(events) : IsErrorEvent(events[i])}
FileEvents == {i \in 1..Len(events) : IsFileEvent(events[i])}

\* After an exception: one error event, it is the last event before the
\* terminator, and the generator is at its last yield or past it.
OneErrorThenTerminator ==
    /\ pc \in {"terminate", "done"}
    /\ Cardinality(ErrorEvents) = 1
    /\ pc = "terminate" => IsErrorEvent(events[Len(events)])
    /\ pc = "done" =>
          /\ Len(events) >= 2
          /\ IsErrorEvent(events[Len(events) - 1])
          /\ events[Len(events)] = Terminator
    /\ response.status = 200

\* C4 as stated: an exception raised anywhere in the generator, the parsing
\* of a line and the rendering of the document included, yields exactly one
\* error event followed by the terminator.
C4_AnyExceptionOneErrorEvent ==
    (Streaming /\ raised /= {}) => OneErrorThenTerminator

\* C4 as amended: an exception raised while opening the upstream connection,
\* reading the body of a non-200 answer or reading a chunk yields exactly one
\* error event followed by the terminator, and the generator ends normally
\* under the 200 streaming response; an exception raised while parsing a
\* line or inside document generation is swallowed where it is raised and
\* yields no error event.
C4_EscapingExceptionOneErrorEvent ==
    Streaming =>
        /\ raised \cap EscapeSites /= {} => OneErrorThenTerminator
        /\ (raised /= {} /\ raised \cap EscapeSites = {} /\ status = 200)
              => ErrorEvents = {}

C4_Witness ==
    /\ Streaming /\ pc = "done" /\ "chunk" \in raised /\ "parse" \in raised
    /\ Len(events) >= 3
    /\ Count(events, Terminator) = 1

\* A malformed frame: frame data that is not the sentinel and is not a JSON
\* document with a content string at choices[0].delta.content.
Malformed(line) ==
    FrameData(line) /= <<>> /\ ~IsSentinelLine(line) /\ FrameContent(line) = <<>>

\* What the loop of lines 281-299 accumulates from a sequence of lines.
RECURSIVE Accumulated(_)
Accumulated(lines) ==
    IF lines = <<>> THEN <<>>
    ELSE (IF Strip(Head(lines)) /= <<>> /\ StartsWithData(Head(lines))
          THEN ExtractDelta(Head(lines)) ELSE <<>>)
         \o Accumulated(Tail(lines))

NotMalformed(line) == ~Malformed(line)
Terminated(text) == SubSeq(LinesOf(text), 1, Len(LinesOf(text)) - 1)

\* C5: the step that processes a malformed line forwards the line raw as one
\* event, leaves full_content alone, emits no error event and stays in the
\* loop; and at the end of the upstream every non-blank line has its event and
\* full_content is what the same text without its malformed lines
\* accumulates.
C5_MalformedFrameSkipped ==
    [][ /\ (pc = "read" /\ HasNL(buffer) /\ Malformed(SplitLine(buffer).line)) =>
              /\ events' = Append(events,
                    (IF StartsWithData(SplitLine(buffer).line) THEN <<>> ELSE <<DataPrefix>>)
                    \o SplitLine(buffer).line \o <<NL, NL>>)
              /\ full_content' = full_content
              /\ pc' = "read"
              /\ raised' \cap EscapeSites = {}
        /\ (pc = "read" /\ pc' = "render") =>
              /\ Len(events') =
                    Cardinality({i \in 1..Len(LinesOf(received')) :
                                    Strip(LinesOf(received')[i]) /= <<>>})
              /\ ErrorEvents = {}
              /\ full_content' =
                    Accumulated(SelectSeq(Terminated(received'), NotMalformed))
      ]_vars

C5_Witness ==
    /\ Streaming /\ pc = "render" /\ "parse" \in raised
    /\ Len(LinesOf(received)) = 3
    /\ Malformed(LinesOf(received)[1])
    /\ full_content = <<"a">>
    /\ Len(events) = 2

\* One event per line, as lines 283-306 yield them.
RECURSIVE Forwarded(_)
Forwarded(lines) ==
    IF lines = <<>> THEN <<>> ELSE ForwardLine(Head(lines)) \o Forwarded(Tail(lines))

NotSentinel(line) == ~IsSentinelLine(line)

\* C6: at the end of the upstream the events are, one to one and in order,
\* the non-blank lines of the received text that are not the sentinel, the
\* unterminated remainder included as the last of them.
C6_FramesAreTheNonSentinelLines ==
    (Streaming /\ pc = "render") =>
        events = Forwarded(SelectSeq(LinesOf(received), NotSentinel))

\* The same with the sentinel lines counted in: what the code does.
FramesAreTheLines ==
    (Streaming /\ pc = "render") => events = Forwarded(LinesOf(received))

\* What C7 says of a generator that read the upstream to its end, with
\* wanted telling whether a document is due: the renderer was called once
\* with the whole of full_content when one is due and not at all otherwise;
\* there is a file event exactly when a file was written, it carries that
\* file's name, url and media type, and it is the last event before the
\* closing terminator.
RendererContract(wanted) ==
    IF wanted
    THEN /\ render_calls = <<[content |-> full_content, format |-> req.output_format]>>
         /\ Cardinality(FileEvents) = Cardinality(generated)
         /\ Cardinality(generated) <= 1
         /\ \A i \in FileEvents : \E f \in generated :
               /\ events[i][2].v.filename = f.filename
               /\ events[i][2].v.url = <<"/api/files/">> \o f.filename
               /\ events[i][2].v.mime_type = MimeType(f.format)
               /\ f.content = full_content
               /\ i = IF pc = "done" THEN Len(events) - 1 ELSE Len(events)
         /\ pc = "done" => events[Len(events)] = Terminator
    ELSE render_calls = <<>> /\ FileEvents = {} /\ generated = {}

\* C7 as stated: the document is due when output_format is not text and
\* full_content is not empty.
C7_RenderedIffNonEmpty ==
    (ReadToEnd /\ pc /= "render") =>
        RendererContract(req.output_format /= "text" /\ full_content /= <<>>)

\* C7 as amended: the document is due when output_format is not text and
\* full_content holds a character that is not whitespace.
C7_RenderedIffNonBlank ==
    (ReadToEnd /\ pc /= "render") =>
        RendererContract(req.output_format /= "text"
                         /\ \E i \in 1..Len(full_content) : full_content[i] \notin {" ", "\n"})

C7_Witness ==
    /\ ReadToEnd /\ pc = "done"
    /\ req.output_format = "pdf"
    /\ Len(events) = 4
    /\ IsFileEvent(events[3])
    /\ full_content = <<"a", "b">>

\* C8: every event is 'data: ' once, a payload without surrounding
\* whitespace, and a blank line.
C8_EventsWellFormed ==
    Streaming =>
        \A i \in 1..Len(events) :
            LET e == events[i]
                payload == SubSeq(e, 2, Len(e) - 2)
            IN /\ Len(e) >= 3
               /\ e[1] = DataPrefix
               /\ e[Len(e) - 1] = NL /\ e[Len(e)] = NL
               /\ Strip(payload) = payload
               /\ \A j \in 1..Len(payload) : payload[j] /= DataPrefix

\* C9: a blocking chat call with the credential set, answered by the upstream
\* with a status other than 200, fails with that same status, after one
\* upstream call.
C9_UpstreamStatusForwarded ==
    (req.kind = "chat" /\ ~req.stream /\ api_key /\ pc = "done" /\ status \notin {0, 200}) =>
        /\ response.status = status
        /\ upstream_calls = 1

\* C10: an upload with an extension outside the allowed set, or one over the
\* size limit whose content could be read, is answered with 400 and leaves
\* the upload directory as it was.
C10_RejectedUploadIs400 ==
    (req.kind = "upload" /\ pc = "done"
       /\ (\/ Lower(req.ext) \notin allowed_extensions
           \/ (req.size > UploadLimit /\ response.status /= 200
                 /\ response.detail.cause.type = "HTTPException"))) =>
        /\ response.status = 400
        /\ uploads \subseteq {StoredBefore}

\* The part of C10 the handler keeps: a rejected upload writes nothing.
RejectedUploadWritesNothing ==
    (req.kind = "upload" /\ pc = "done"
       /\ (Lower(req.ext) \notin allowed_extensions \/ req.size > UploadLimit)) =>
        uploads \subseteq {StoredBefore}


\* C11: when the document generator throws, generate_file returns no
\* reference: a streaming response carries no file event and no error event
\* and, once ended, has forwarded every line and closes with the terminator;
\* a blocking response is the upstream JSON, status 200, without a file
\* field.
C11_RenderFailureIsSilent ==
    (req.kind = "chat" /\ api_key /\ "render" \in raised) =>
        /\ generated = {}
        /\ Len(render_calls) = 1
        /\ IF req.stream
           THEN /\ FileEvents = {}
                /\ ErrorEvents = {}
                /\ response.status = 200
                /\ pc \in {"terminate", "done"}
                /\ pc = "done" =>
                      events = Forwarded(LinesOf(received)) \o <<Terminator>>
           ELSE /\ response.status = 200
                /\ DOMAIN response = {"status", "body"}
                /\ response.body \in UpstreamBodies
                /\ response.body.choices[1].message.content = render_calls[1].content

C11_Witness ==
    /\ Streaming /\ pc = "done" /\ "render" \in raised
    /\ req.output_format = "docx"
    /\ full_content = <<"a", "b">>
    /\ Len(events) = 3

C11_WitnessBlocking ==
    /\ req.kind = "chat" /\ ~req.stream /\ pc = "done" /\ "render" \in raised
    /\ response.status = 200

\* C12: a chat request made while the credential is absent, streaming or
\* not, ends with status 500 in the handler's first step: no upstream call is
\* made, no event is emitted, the renderer is not called and no file is
\* generated.
C12_NoCredentialNoUpstream ==
    (req.kind = "chat" /\ ~api_key) =>
        /\ pc \in {"request", "done"}
        /\ upstream_calls = 0
        /\ status = 0
        /\ events = <<>>
        /\ render_calls = <<>>
        /\ generated = {}
        /\ pc = "done" => response.status = 500

C12_Witness ==
    /\ req.kind = "chat" /\ ~api_key /\ req.stream /\ req.output_format = "pdf"
    /\ pc = "done"
    /\ response.status = 500

\* C13 as stated: a chat call whose upstream call timed out is answered with
\* status 408, and one whose upstream call failed otherwise at network level
\* with status 500.
C13_TimeoutIs408 ==
    (req.kind = "chat" /\ api_key /\ pc = "done") =>
        /\ "TimeoutException" \in raised => response.status = 408
        /\ "RequestError" \in raised => response.status = 500

\* C13 as amended: a blocking chat call whose upstream call timed out is
\* answered with status 408, and one whose upstream call failed otherwise at
\* network level with status 500, after one upstream call; a streaming call
\* keeps the status 200 it started with in both cases and reports the failure
\* as one error event followed by the terminator.
C13_BlockingTimeoutIs408 ==
    (req.kind = "chat" /\ api_key /\ pc = "done" /\ raised \cap NetworkFailures /= {}) =>
        /\ upstream_calls = 1
        /\ Cardinality(raised \cap NetworkFailures) = 1
        /\ IF req.stream
           THEN response.status = 200 /\ OneErrorThenTerminator
           ELSE /\ "TimeoutException" \in raised => response.status = 408
                /\ "RequestError" \in raised => response.status = 500

C13_Witness ==
    /\ req.kind = "chat" /\ ~req.stream /\ pc = "done"
    /\ "TimeoutException" \in raised
    /\ response.status = 408

\* C14: no two of the requests that call generate_file concurrently are
\* given the same filename, the same format and the same second of the
\* clock included.
C14_FilenamesDistinct ==
    \A r1, r2 \in DOMAIN workers :
        (r1 /= r2 /\ workers[r1].pc /= "call" /\ workers[r2].pc /= "call") =>
            workers[r1].filename /= workers[r2].filename

\* What a shared name costs: two requests were both handed a reference, and
\* the directory holds one file, with the content of one of them.
C14_OneFileForTwoReferences ==
    /\ pc = "generate_file"
    /\ \A r \in DOMAIN workers : workers[r].pc = "returned"
    /\ workers[1].content /= workers[2].content
    /\ Cardinality(generated) = 1

\* The names differ whenever the format, the second read from the clock or
\* the eight characters drawn differ: every file in the directory is the last
\* one written under its name.
C14_NamesKeyTheDirectory ==
    pc = "generate_file" =>
        /\ \A f, g \in generated : f.filename = g.filename => f = g
        /\ \A f \in generated : \E r \in DOMAIN workers :
              /\ workers[r].pc = "returned"
              /\ f.filename = workers[r].filename
              /\ f.format = workers[r].format
              /\ f.content = workers[r].content

\* C15: an upload with an allowed extension and a size of exactly 50 MiB is
\* accepted and stored at that size, unless reading it or writing it failed;
\* one of 50 MiB and one byte is refused and stores nothing.
C15_LimitIsInclusive ==
    (req.kind = "upload" /\ pc = "done" /\ Lower(req.ext) \in allowed_extensions) =>
        /\ req.size = UploadLimit =>
              \/ /\ response.status = 200
                 /\ response.size = UploadLimit
                 /\ [name |-> <<response.file_id, req.ext>>, size |-> UploadLimit] \in uploads
              \/ /\ response.status /= 200
                 /\ response.detail.cause.type = "OSError"
        /\ req.size = UploadLimit + 1 =>
              /\ response.status /= 200
              /\ uploads \subseteq {StoredBefore}

C15_Witness ==
    /\ req.kind = "upload" /\ pc = "done"
    /\ req.ext = ".PDF" /\ req.size = UploadLimit
    /\ response.status = 200
    /\ \E f \in uploads : f.size = UploadLimit /\ f.name[2] = ".PDF"

C15_WitnessOver ==
    /\ req.kind = "upload" /\ pc = "done"
    /\ req.ext = ".txt" /\ req.size = UploadLimit + 1
    /\ response.status /= 200
    /\ response.detail.cause.type = "HTTPException"

\* The documents the generators wrote, by format.
Documents(fmt) == {f \in generated : f.format = fmt}

\* A line that consists of code-fence markers and nothing else.
FenceOnly(line) ==
    /\ line /= <<>>
    /\ Len(line) % Len(Fence) = 0
    /\ \A i \in 1..Len(line) : line[i] = Backtick

\* The element C16 gives a line, trimmed of surrounding whitespace (<<>> for a
\* line that is skipped).
DocxElementOf(raw) ==
    LET line == StripContent(raw)
        rest(n) == SubSeq(line, n + 1, Len(line))
    IN CASE line = <<>> -> <<[kind |-> "paragraph", text |-> <<>>]>>
         [] StartsWith(line, <<"#", " ">>) -> <<[kind |-> "heading 1", text |-> rest(2)]>>
         [] StartsWith(line, <<"#", "#", " ">>) -> <<[kind |-> "heading 2", text |-> rest(3)]>>
         [] StartsWith(line, <<"#", "#", "#", " ">>) ->
               <<[kind |-> "heading 3", text |-> rest(4)]>>
         [] OTHER ->
               IF StartsWith(line, <<"*", "*">>) /\ EndsWith(line, <<"*", "*">>)
               THEN <<[kind |-> "bold run", text |-> SubSeq(line, 3, Len(line) - 2)]>>
               ELSE IF StartsWith(line, <<"-", " ">>) \/ StartsWith(line, <<"*", " ">>)
               THEN <<[kind |-> "List Bullet", text |-> rest(2)]>>
               ELSE IF FenceOnly(line) THEN <<>>
               ELSE <<[kind |-> "paragraph", text |-> line]>>

\* C16: a DOCX document is, after its title and time of generation, the
\* elements of the lines of its content, in order and one per line: heading,
\* bold run, bulleted item, paragraph break or plain paragraph by the line
\* grammar, and nothing for a line that consists solely of code-fence
\* markers, the only lines left out.
C16_DocxLineGrammar ==
    \A f \in Documents("docx") :
        LET lines == SplitContent(f.content)
        IN /\ f.body = DocxPreamble \o Flatten([i \in 1..Len(lines) |-> DocxElementOf(lines[i])])
           /\ Len(f.body) = Len(DocxPreamble)
                 + Cardinality({i \in 1..Len(lines) : ~FenceOnly(StripContent(lines[i]))})

\* What the DOCX generator keeps of C16: the elements follow the order of the
\* lines, at most one per line, and a line is left out exactly when, trimmed,
\* it starts with a code-fence marker, whatever follows the marker.
DocxDropsWhatStartsWithFence ==
    \A f \in Documents("docx") :
        LET lines == SplitContent(f.content)
            kept == {i \in 1..Len(lines) : ~StartsWith(StripContent(lines[i]), Fence)}
            before(i) == Cardinality({j \in kept : j < i})
        IN /\ Len(f.body) = Len(DocxPreamble) + Cardinality(kept)
           /\ \A i \in kept :
                 f.body[Len(DocxPreamble) + before(i) + 1] = DocxElementOf(lines[i])[1]

\* A DOCX document whose content has a line that starts with a code-fence
\* marker and goes on with text: the line is not in the document.
DocxDroppedText ==
    \E f \in Documents("docx") :
        /\ f.content = Fence \o <<"x">> \o Fence \o <<"\n", "x">>
        /\ Len(f.body) = Len(DocxPreamble) + 1

\* The story elements C17 gives a line, trimmed of surrounding whitespace:
\* a break, a heading, nothing for a line of code-fence markers only, or a
\* plain paragraph without the three markup characters; a spacer follows
\* every paragraph.
PdfElementOf(raw) ==
    LET line == StripContent(raw)
        rest(n) == SubSeq(line, n + 1, Len(line))
        spaced(p) == <<p, [kind |-> "Spacer 6", text |-> <<>>]>>
    IN CASE line = <<>> -> <<[kind |-> "Spacer 6", text |-> <<>>]>>
         [] StartsWith(line, <<"#", " ">>) -> spaced([kind |-> "Heading1", text |-> rest(2)])
         [] StartsWith(line, <<"#", "#", " ">>) ->
               spaced([kind |-> "Heading1", text |-> rest(3)])
         [] StartsWith(line, <<"#", "#", "#", " ">>) ->
               spaced([kind |-> "Heading1", text |-> rest(4)])
         [] OTHER ->
               IF FenceOnly(line) THEN <<>>
               ELSE spaced([kind |-> "Normal",
                            text |-> SelectSeq(line, LAMBDA ch : ch \notin {"<", ">", "&"})])

\* C17: a PDF document is, after its title and time of generation, the
\* elements of the lines of its content in order: a heading for a heading
\* prefix, nothing for a line of code-fence markers only, a break for a blank
\* line, and for every other line, bold and list lines included, a plain
\* paragraph whose text is the line with every '<', '>' and '&' deleted.
C17_PdfLineGrammar ==
    \A f \in Documents("pdf") :
        LET lines == SplitContent(f.content)
        IN /\ f.body = PdfPreamble \o Flatten([i \in 1..Len(lines) |-> PdfElementOf(lines[i])])
           /\ \A k \in (Len(PdfPreamble) + 1)..Len(f.body) :
                 f.body[k].kind = "Normal" =>
                    \A j \in 1..Len(f.body[k].text) : f.body[k].text[j] \notin {"<", ">", "&"}

\* What the PDF generator keeps of C17: every line that is not blank gives
\* one paragraph and a spacer, code-fence lines included; a heading prefix
\* gives a heading, and every other paragraph is the trimmed line without its
\* '<', '>' and '&'.
PdfKeepsFenceLines ==
    \A f \in Documents("pdf") :
        LET lines == SplitContent(f.content)
            para(raw) ==
                LET line == StripContent(raw)
                IN IF line = <<>> THEN <<[kind |-> "Spacer 6", text |-> <<>>]>>
                   ELSE IF FenceOnly(line)
                   THEN <<[kind |-> "Normal", text |-> line],
                          [kind |-> "Spacer 6", text |-> <<>>]>>
                   ELSE PdfElementOf(raw)
        IN f.body = PdfPreamble \o Flatten([i \in 1..Len(lines) |-> para(lines[i])])

\* A PDF document with the code-fence markers of its content as a paragraph.
PdfFenceParagraph ==
    \E f \in Documents("pdf") :
        /\ f.content = Fence \o <<"\n", "x">>
        /\ f.body[Len(PdfPreamble) + 1] = [kind |-> "Normal", text |-> Fence]

\* C18: a blocking chat call that the upstream answered with 200 and a JSON
\* body, when it returns successfully, returns that JSON unchanged plus at
\* most a file field; the file field is there only when output_format is
\* not text and a document was generated from the first choice's message
\* content, which it then names; with output_format text the call always
\* succeeds with exactly the upstream JSON, the renderer is not called and no
\* file is written.
C18_BlockingBodyIsUpstreamJson ==
    (req.kind = "chat" /\ ~req.stream /\ api_key /\ pc = "done" /\ status = 200
       /\ JsonLoadsOk(received)) =>
        LET data == received[1].v
        IN /\ response.status = 200 =>
                 /\ response.body = data
                 /\ DOMAIN response \subseteq {"status", "body", "file"}
                 /\ "file" \in DOMAIN response =>
                       /\ req.output_format /= "text"
                       /\ \E f \in generated :
                             /\ f.content = data.choices[1].message.content
                             /\ f.format = req.output_format
                             /\ response.file.filename = f.filename
                             /\ response.file.url = <<"/api/files/">> \o f.filename
                             /\ response.file.mime_type = MimeType(f.format)
                 /\ "file" \notin DOMAIN response => generated = {}
           /\ req.output_format = "text" =>
                 /\ response = [status |-> 200, body |-> data]
                 /\ render_calls = <<>>
                 /\ generated = {}
           /\ response.status /= 200 =>
                 /\ data.choices /= <<>>
                 /\ "message" \notin DOMAIN data.choices[1]

C18_Witness ==
    /\ req.kind = "chat" /\ ~req.stream /\ pc = "done"
    /\ req.output_format = "docx"
    /\ received = <<Json(Completion(<<"a">>))>>
    /\ "file" \in DOMAIN response
    /\ response.body = Completion(<<"a">>)
    /\ Cardinality(generated) = 1

C18_WitnessText ==
    /\ req.kind = "chat" /\ ~req.stream /\ pc = "done"
    /\ req.output_format = "text"
    /\ response = [status |-> 200, body |-> Completion(<<"a">>)]

\* C19: what the generator has emitted and accumulated is a function of the
\* text received so far, whatever chunks it came in.  While the upstream is
\* being read, the events, followed by those of the lines waiting in the
\* buffer, are the events of the terminated lines of the text, full_content
\* with what those lines add is what the terminated lines accumulate, and the
\* buffer ends with the unterminated rest of the text; once the upstream is
\* exhausted the events begin with one event per line of the whole text and
\* full_content is what its terminated lines accumulate.
C19_ChunkingIsNotObserved ==
    (Streaming /\ status = 200) =>
        LET text == LinesOf(received)
            terminated == SubSeq(text, 1, Len(text) - 1)
            waiting == LinesOf(buffer)
        IN /\ pc = "read" =>
                 /\ events \o Forwarded(SubSeq(waiting, 1, Len(waiting) - 1))
                       = Forwarded(terminated)
                 /\ full_content \o Accumulated(SubSeq(waiting, 1, Len(waiting) - 1))
                       = Accumulated(terminated)
                 /\ waiting[Len(waiting)] = text[Len(text)]
           /\ (pc \in {"render", "terminate", "done"} /\ raised \cap EscapeSites = {}) =>
                 /\ Len(events) >= Len(Forwarded(text))
                 /\ SubSeq(events, 1, Len(Forwarded(text))) = Forwarded(text)
                 /\ full_content = Accumulated(terminated)
                 /\ wire = <<>>

\* A chunk ended inside the 'data: ' of the second line, after a first line
\* that came in more than one chunk was processed.
C19_Witness ==
    /\ Streaming /\ pc = "read"
    /\ buffer = <<PrefixHead>>
    /\ received = <<DataPrefix, DeltaA, NL, PrefixHead>>
    /\ events = <<<<DataPrefix, DeltaA, NL, NL>>>>
    /\ full_content = <<"a">>

\* C20: a streaming generator calls the renderer at most once, and only
\* after it read a 200 upstream to its end with no exception escaping; when
\* the upstream answered with another status, or an exception ended the
\* reading, the renderer is not called, no file is written and no file event
\* is emitted, whatever was accumulated and whatever the format.
C20_RenderOnlyAfterExhaustion ==
    Streaming =>
        /\ Len(render_calls) <= 1
        /\ Cardinality(generated) <= 1
        /\ Cardinality(FileEvents) <= 1
        /\ (status /= 200 \/ raised \cap EscapeSites /= {}) =>
              /\ render_calls = <<>>
              /\ generated = {}
              /\ FileEvents = {}
        /\ render_calls /= <<>> =>
              /\ ReadToEnd
              /\ pc \in {"terminate", "done"}
              /\ wire = <<>>
              /\ render_calls[1].content = Accumulated(Terminated(received))

C20_Witness ==
    /\ Streaming /\ pc = "done" /\ "chunk" \in raised
    /\ req.output_format = "pdf"
    /\ full_content = <<"a">>
    /\ render_calls = <<>>
    /\ Len(events) = 3
====
